---- MODULE Spec2Model ----
(***************************************************************************)
(* TinyTorch core Tensor (tinytorch/core/tensor.py) as a state machine.    *)
(*                                                                         *)
(* A Tensor instance is one heap object owning one buffer: Tensor.__init__ *)
(* always copies its input (np.array(data, dtype=np.float32)), so object   *)
(* identity and buffer identity coincide and `heap` is indexed by object.  *)
(* An array is a record [shape, data]: data is the row-major (C order)     *)
(* flattening of the buffer.  Elements are exact rationals <<n, d>> with   *)
(* d > 0, plus the IEEE specials <<1,0>> (+inf), <<-1,0>> (-inf) and       *)
(* <<0,0>> (nan); float32 rounding and the sign of zero are not modelled.  *)
(*                                                                         *)
(* A client constructs a Tensor (Init), calls a method on it, and may call *)
(* a method on the result or write into the result's buffer.  `last` and   *)
(* `prev` are the records of the two most recent calls.                    *)
(***************************************************************************)
EXTENDS Integers, Sequences, FiniteSets, TLC

VARIABLES heap, prev, last

vars == <<heap, prev, last>>

\* ------------------------------------------------------------------ bounds
\* Largest number of axes of a constructed Tensor or of a reshape target.
MaxRank == 3
\* Largest size of one axis.
MaxDim == 3
\* Largest number of elements of a constructed Tensor.
MaxSize == 6
\* Largest element of the 2x2 operands of SpecMatmul.
MaxVal == 2

\* ---------------------------------------------------------------- elements
RECURSIVE Gcd(_, _)
Gcd(a, b) == IF b = 0 THEN a ELSE Gcd(b, a % b)

Abs(n) == IF n < 0 THEN -n ELSE n

Sign(n) == IF n < 0 THEN -1 ELSE IF n > 0 THEN 1 ELSE 0

\* The float of the fraction n/d (d = 0: the IEEE special of that sign).
Rat(n, d) ==
    IF d = 0 THEN <<Sign(n), 0>>
    ELSE LET g == Gcd(Abs(n), Abs(d))
         IN  <<(Sign(d) * n) \div g, Abs(d) \div g>>

Num(n) == <<n, 1>>

\* x + y, x - y, x * y of finite operands.
RAdd(x, y) == Rat(x[1] * y[2] + y[1] * x[2], x[2] * y[2])

RSub(x, y) == Rat(x[1] * y[2] - y[1] * x[2], x[2] * y[2])

RMul(x, y) == Rat(x[1] * y[1], x[2] * y[2])

\* x / y of finite operands; division by zero follows IEEE (inf, nan), it
\* does not raise.
RDiv(x, y) == Rat(x[1] * y[2], x[2] * y[1])

RLess(x, y) == x[1] * y[2] < y[1] * x[2]

\* ------------------------------------------------------------------ shapes
RECURSIVE Prod(_)
Prod(s) == IF s = <<>> THEN 1 ELSE Head(s) * Prod(Tail(s))

\* The multi-index (0-based) of the flat offset off (0-based) in shape s.
RECURSIVE Unravel(_, _)
Unravel(off, s) ==
    IF s = <<>> THEN <<>>
    ELSE LET rest == Prod(Tail(s))
         IN  <<off \div rest>> \o Unravel(off % rest, Tail(s))

\* The flat offset of the multi-index idx in shape s.
RECURSIVE Ravel(_, _)
Ravel(idx, s) ==
    IF s = <<>> THEN 0
    ELSE Head(idx) * Prod(Tail(s)) + Ravel(Tail(idx), Tail(s))

Arr(shape, data) == [shape |-> shape, data |-> data]

Rank(a) == Len(a.shape)

Size(a) == Len(a.data)

\* The element of a at the multi-index idx.
At(a, idx) == a.data[Ravel(idx, a.shape) + 1]

\* np.arange(base, base + Prod(shape)).reshape(shape)
Arange(shape, base) ==
    Arr(shape, [k \in 1..Prod(shape) |-> Num(base + k - 1)])

\* The sequences over S of length 0..n.
RECURSIVE SeqsUpTo(_, _)
SeqsUpTo(S, n) ==
    IF n = 0 THEN {<<>>}
    ELSE LET shorter == SeqsUpTo(S, n - 1)
         IN  shorter \cup {Append(s, x) : s \in {q \in shorter : Len(q) = n - 1}, x \in S}

\* The shapes of the Tensors the client constructs.
InputShapes == {s \in SeqsUpTo(1..MaxDim, MaxRank) : Prod(s) <= MaxSize}

\* ---------------------------------------------------- outcomes of a method
NoMsg == [text |-> "", dims |-> <<>>]

EmptyArr == Arr(<<0>>, <<>>)

\* Tensor(arr) returned by a method: Tensor.__init__ copies arr into a buffer
\* of the new instance and derives shape and size from it.
RetTensor(arr) ==
    [kind |-> "Tensor", val |-> arr, fresh |-> TRUE, exc |-> "", msg |-> NoMsg]

\* The method returned its own receiver.
RetSelf(t) ==
    [kind |-> "Tensor", val |-> t, fresh |-> FALSE, exc |-> "", msg |-> NoMsg]

\* The method returned a raw backend array, not a Tensor.
RetArray(arr) ==
    [kind |-> "ndarray", val |-> arr, fresh |-> TRUE, exc |-> "", msg |-> NoMsg]

Raise(exc, text, dims) ==
    [kind |-> "raise", val |-> EmptyArr, fresh |-> FALSE, exc |-> exc,
     msg |-> [text |-> text, dims |-> dims]]

\* Tensor(x) for a backend result x: the backend's error propagates.
Wrap(r) == IF r.kind = "ndarray" THEN RetTensor(r.val) ELSE r

\* A Python list index d into a list of length n.
PyValid(n, d) == -n <= d /\ d < n

PyPos(n, d) == IF d < 0 THEN d + n ELSE d

\* An optional argument: <<>> is None, <<v>> is the value v.
None == <<>>

Some(v) == <<v>>

\* --------------------------------------------------------------- transpose
IsPerm(axes) == \A q \in 0..(Len(axes) - 1) : \E j \in 1..Len(axes) : axes[j] = q

\* np.transpose(a, axes): axis j of the result is axis axes[j] of a.
np_transpose(a, axes) ==
    IF ~IsPerm(axes)
    THEN Raise("ValueError", "repeated axis in transpose", <<>>)
    ELSE LET n == Rank(a)
             shape == [j \in 1..n |-> a.shape[axes[j] + 1]]
             src(m) == [q \in 1..n |-> m[CHOOSE j \in 1..n : axes[j] = q - 1]]
         IN  RetArray(Arr(shape,
                 [k \in 1..Size(a) |-> At(a, src(Unravel(k - 1, shape)))]))

\* A swap written as two assignments in sequence: both places end up holding
\* the entry at d1.
SwapAxesSequential(axes, d0, d1) ==
    [axes EXCEPT ![PyPos(Len(axes), d0) + 1] = axes[PyPos(Len(axes), d1) + 1]]

\* axes with the entries at Python indices d0 and d1 exchanged.
SwapAxes(axes, d0, d1) ==
    LET n == Len(axes)
        p0 == PyPos(n, d0) + 1
        p1 == PyPos(n, d1) + 1
    IN  [axes EXCEPT ![p0] = axes[p1], ![p1] = axes[p0]]

\* axes[d] for an optional d: the error Python raises, or "" when d is valid.
ListIndexError(n, d) ==
    IF d = None THEN "TypeError"
    ELSE IF ~PyValid(n, d[1]) THEN "IndexError" ELSE ""

ListIndexText(exc) ==
    IF exc = "TypeError" THEN "list indices must be integers or slices, not NoneType"
    ELSE "list index out of range"

\* Tensor.transpose(dim0, dim1); the right-hand side axes[dim1], axes[dim0]
\* is evaluated left to right.
TensorTranspose(t, dim0, dim1) ==
    LET n == Rank(t)
        axes == [j \in 1..n |-> j - 1]
        e1 == ListIndexError(n, dim1)
        e0 == ListIndexError(n, dim0)
    IN  IF n = 1 THEN RetSelf(t)
        ELSE IF dim0 = None /\ dim1 = None
        THEN IF n < 2
             THEN Raise("IndexError", ListIndexText("IndexError"), <<>>)
             ELSE Wrap(np_transpose(t, SwapAxes(axes, -2, -1)))
        ELSE IF e1 # "" THEN Raise(e1, ListIndexText(e1), <<>>)
        ELSE IF e0 # "" THEN Raise(e0, ListIndexText(e0), <<>>)
        ELSE Wrap(np_transpose(t, SwapAxes(axes, dim0[1], dim1[1])))

\* ------------------------------------------------------- memory_footprint
\* The bytes of one np.float32 element.
ItemSize == 4

\* The method returned a Python int.
RetInt(n) ==
    [kind |-> "int", val |-> Arr(<<>>, <<Num(n)>>), fresh |-> TRUE, exc |-> "",
     msg |-> NoMsg]

\* Tensor.memory_footprint: self.data.nbytes
TensorMemoryFootprint(t) == RetInt(Size(t) * ItemSize)

\* ------------------------------------------------------------ element-wise
\* Shape s padded with leading 1s to n axes.
Pad(s, n) == [j \in 1..n |-> IF j <= n - Len(s) THEN 1 ELSE s[j - (n - Len(s))]]

Max2(a, b) == IF a < b THEN b ELSE a

\* Whether shapes sa and sb broadcast: aligned from the trailing axis, each
\* pair of sizes is equal or one of them is 1.
Broadcastable(sa, sb) ==
    LET n == Max2(Len(sa), Len(sb))
    IN  \A j \in 1..n :
            \/ Pad(sa, n)[j] = Pad(sb, n)[j]
            \/ Pad(sa, n)[j] = 1
            \/ Pad(sb, n)[j] = 1

BroadcastShape(sa, sb) ==
    LET n == Max2(Len(sa), Len(sb))
    IN  [j \in 1..n |-> IF Pad(sa, n)[j] = 1 THEN Pad(sb, n)[j] ELSE Pad(sa, n)[j]]

\* The multi-index into an operand of shape s for the multi-index m of the
\* broadcast result: a stretched axis (size 1) is read at 0.
BIndex(m, s) ==
    [q \in 1..Len(s) |-> IF s[q] = 1 THEN 0 ELSE m[q + Len(m) - Len(s)]]

\* x (op) y of two elements.
ElemOp(op, x, y) ==
    IF op = "add" THEN RAdd(x, y)
    ELSE IF op = "sub" THEN RSub(x, y)
    ELSE IF op = "mul" THEN RMul(x, y)
    ELSE RDiv(x, y)

\* a (op) b of the backend, with broadcasting.
np_binary(op, a, b) ==
    IF ~Broadcastable(a.shape, b.shape)
    THEN Raise("ValueError", "operands could not be broadcast together with shapes",
               a.shape \o b.shape)
    ELSE LET shape == BroadcastShape(a.shape, b.shape)
         IN  RetArray(Arr(shape,
                 [k \in 1..Prod(shape) |->
                     LET m == Unravel(k - 1, shape)
                     IN  ElemOp(op, At(a, BIndex(m, a.shape)), At(b, BIndex(m, b.shape)))]))

\* Tensor.__add__
TensorAdd(t, other) ==
    IF other.kind = "Tensor" THEN Wrap(np_binary("add", t, other.val))
    ELSE np_binary("add", t, other.val)

\* Tensor.__sub__
TensorSub(t, other) ==
    IF other.kind = "Tensor" THEN Wrap(np_binary("sub", t, other.val))
    ELSE np_binary("sub", t, other.val)

\* Tensor.__mul__
TensorMul(t, other) ==
    IF other.kind = "Tensor" THEN Wrap(np_binary("mul", t, other.val))
    ELSE np_binary("mul", t, other.val)

\* Tensor.__truediv__
TensorDiv(t, other) ==
    IF other.kind = "Tensor" THEN Wrap(np_binary("div", t, other.val))
    ELSE Wrap(np_binary("div", t, other.val))

\* ------------------------------------------------------------------ matmul
RECURSIVE SumSeq(_)
SumSeq(xs) == IF xs = <<>> THEN Num(0) ELSE RAdd(Head(xs), SumSeq(Tail(xs)))

\* s without its last n entries.
DropLast(s, n) == SubSeq(s, 1, Len(s) - n)

\* np.matmul(a, b): a 1-D operand is promoted to a matrix (a row for a, a
\* column for b) and the added axis is removed from the result; the last two
\* axes are the matrices, the leading axes broadcast.
np_matmul(a, b) ==
    IF Rank(a) = 0 \/ Rank(b) = 0
    THEN Raise("ValueError", "matmul: Input operand does not have enough dimensions", <<>>)
    ELSE LET sa == IF Rank(a) = 1 THEN <<1>> \o a.shape ELSE a.shape
             sb == IF Rank(b) = 1 THEN b.shape \o <<1>> ELSE b.shape
             ka == sa[Len(sa)]
             kb == sb[Len(sb) - 1]
             ba == DropLast(sa, 2)
             bb == DropLast(sb, 2)
         IN  IF ka # kb
             THEN Raise("ValueError",
                        "matmul: Input operand 1 has a mismatch in its core dimension 0 (size {0} is different from {1})",
                        <<kb, ka>>)
             ELSE IF ~Broadcastable(ba, bb)
             THEN Raise("ValueError", "operands could not be broadcast together", ba \o bb)
             ELSE LET batch == BroadcastShape(ba, bb)
                      m == sa[Len(sa) - 1]
                      n == sb[Len(sb)]
                      full == batch \o <<m, n>>
                      shape == batch \o (IF Rank(a) = 1 THEN <<>> ELSE <<m>>)
                                     \o (IF Rank(b) = 1 THEN <<>> ELSE <<n>>)
                      A == Arr(sa, a.data)
                      B == Arr(sb, b.data)
                      cell(idx) ==
                          LET bi == DropLast(idx, 2)
                              i == idx[Len(idx) - 1]
                              j == idx[Len(idx)]
                          IN  SumSeq([p \in 1..ka |->
                                  RMul(At(A, BIndex(bi, ba) \o <<i, p - 1>>),
                                       At(B, BIndex(bi, bb) \o <<p - 1, j>>))])
                  IN  RetArray(Arr(shape,
                          [k \in 1..Prod(full) |-> cell(Unravel(k - 1, full))]))

\* np.dot(u, v) of two sequences of elements of equal length.
np_dot(u, v) == SumSeq([p \in 1..Len(u) |-> RMul(u[p], v[p])])

\* The 2x2 path reading other.data[j,:], a row of other, for a column.
Matmul2x2Rows(t, o) ==
    LET row(i) == [p \in 1..2 |-> At(t, <<i, p - 1>>)]
        orow(j) == [p \in 1..2 |-> At(o, <<j, p - 1>>)]
    IN  RetTensor(Arr(<<2, 2>>,
            [k \in 1..4 |-> np_dot(row((k - 1) \div 2), orow((k - 1) % 2))]))

\* The 2x2 path of Tensor.matmul: lst holds np.dot(self.data[i,:],
\* other.data[:,j]) for i, j in range(2), in that order; other.data[:,j]
\* needs a column j in other.
Matmul2x2(t, o) ==
    IF o.shape[2] < 2
    THEN Raise("IndexError", "index 1 is out of bounds for axis 1 with size 1", <<>>)
    ELSE LET row(i) == [p \in 1..2 |-> At(t, <<i, p - 1>>)]
             col(j) == [p \in 1..o.shape[1] |-> At(o, <<p - 1, j>>)]
             lst == [k \in 1..4 |-> np_dot(row((k - 1) \div 2), col((k - 1) % 2))]
         IN  RetTensor(Arr(<<2, 2>>, lst))

\* The text of Tensor.matmul's own shape error; {0} and {1} are the entries of
\* msg.dims, and != stands for the not-equal sign (U+2260) of the source.
InnerDimsText == "Inner dimensions must match. {0} != {1}"

\* What np.array(x, dtype=np.float32) raises for an x that is a Tensor, which
\* is no array, no sequence with a length and no number: the TypeError of
\* float(x), or the ValueError "setting an array element with a sequence."
\* the backend makes of it; which one depends on the backend's version.
CoercionErrors == {"TypeError", "ValueError"}

\* Tensor.matmul.  For other of rank 0, self * other is already a Tensor and
\* Tensor(self * other) hands it to np.array(..., dtype=np.float32), which
\* raises exc.
TensorMatmul(t, other, exc) ==
    IF other.kind # "Tensor"
    THEN Raise("TypeError", "Both elements must be tensors", <<>>)
    ELSE IF Rank(other.val) = 0
    THEN LET inner == TensorMul(t, other)
         IN  IF inner.kind = "raise" THEN inner
             ELSE Raise(exc, "np.array: a Tensor is not a number", <<>>)
    ELSE IF Rank(other.val) = 1
    THEN Wrap(np_matmul(t, other.val))
    ELSE IF Rank(t) = 0
    THEN Raise("IndexError", "tuple index out of range", <<>>)
    ELSE IF t.shape[Rank(t)] # other.val.shape[Rank(other.val) - 1]
    THEN Raise("ValueError", InnerDimsText,
               <<t.shape[Rank(t)], other.val.shape[Rank(other.val) - 1]>>)
    ELSE IF t.shape = <<2, 2>>
    THEN Matmul2x2(t, other.val)
    ELSE Wrap(np_matmul(t, other.val))

\* ---------------------------------------------------------------- indexing
\* a[key] of the backend for an integer key.
np_getitem(a, key) ==
    IF Rank(a) = 0
    THEN Raise("IndexError", "too many indices for array", <<>>)
    ELSE IF ~PyValid(a.shape[1], key)
    THEN Raise("IndexError", "index is out of bounds for axis 0", <<key, a.shape[1]>>)
    ELSE LET rest == Tail(a.shape)
             n == Prod(rest)
             row == PyPos(a.shape[1], key)
         IN  RetArray(Arr(rest, SubSeq(a.data, row * n + 1, (row + 1) * n)))

\* Tensor.__getitem__
TensorGetItem(t, key) == Wrap(np_getitem(t, key))

\* ----------------------------------------------------------------- reshape
CountNeg(s) == Cardinality({j \in 1..Len(s) : s[j] < 0})

\* a.reshape(shape) of the backend: a negative entry is the unknown
\* dimension.  The elements keep their row-major order.
np_reshape(a, shape) ==
    IF CountNeg(shape) > 1
    THEN Raise("ValueError", "can only specify one unknown dimension", <<>>)
    ELSE IF CountNeg(shape) = 1
    THEN LET known == Prod([j \in 1..Len(shape) |-> IF shape[j] < 0 THEN 1 ELSE shape[j]])
         IN  IF known = 0 \/ Size(a) % known # 0
             THEN Raise("ValueError", "cannot reshape array", <<Size(a)>> \o shape)
             ELSE RetArray(Arr([j \in 1..Len(shape) |->
                                   IF shape[j] < 0 THEN Size(a) \div known ELSE shape[j]],
                               a.data))
    ELSE IF Prod(shape) # Size(a)
    THEN Raise("ValueError", "cannot reshape array", <<Size(a)>> \o shape)
    ELSE RetArray(Arr(shape, a.data))

\* Tensor.reshape(*shape) from the line that tests shape[-1]: a -1 in the
\* last place is replaced, with shape[0], by <<shape[0], size // shape[0]>>.
ReshapeDims(t, shape) ==
    IF shape = <<>>
    THEN Raise("IndexError", "tuple index out of range", <<>>)
    ELSE IF shape[Len(shape)] = -1 /\ shape[1] = 0
    THEN Raise("ZeroDivisionError", "integer division or modulo by zero", <<>>)
    ELSE LET dims == IF shape[Len(shape)] = -1
                     THEN <<shape[1], Size(t) \div shape[1]>>
                     ELSE shape
         IN  IF Size(t) # Prod(dims)
             THEN Raise("ValueError", "Total elements must match.", <<Size(t), Prod(dims)>>)
             ELSE Wrap(np_reshape(t, dims))

\* Tensor.reshape: packed is reshape((d1, ..., dn)), otherwise
\* reshape(d1, ..., dn); shape[0] of an empty argument list fails.
TensorReshape(t, shape, packed) ==
    IF ~packed /\ shape = <<>>
    THEN Raise("IndexError", "tuple index out of range", <<>>)
    ELSE ReshapeDims(t, shape)

\* -------------------------------------------------------------- reductions
\* The multi-indices of a that reduce into the result's multi-index m, for
\* the reduced axis ax (1-based).
Group(a, ax, m) ==
    [v \in 1..a.shape[ax] |->
        [q \in 1..Rank(a) |-> IF q = ax THEN v - 1
                              ELSE IF q < ax THEN m[q] ELSE m[q - 1]]]

RECURSIVE MaxSeq(_)
MaxSeq(xs) ==
    IF Len(xs) = 1 THEN xs[1]
    ELSE LET r == MaxSeq(Tail(xs)) IN IF RLess(Head(xs), r) THEN r ELSE Head(xs)

\* One reduction of the elements xs (never empty: every axis has a size >= 1).
Reduce(fn, xs) ==
    IF fn = "sum" THEN SumSeq(xs)
    ELSE IF fn = "mean" THEN RDiv(SumSeq(xs), Num(Len(xs)))
    ELSE MaxSeq(xs)

\* np.sum / np.mean / np.max (a, axis=axis, keepdims=keepdims)
np_reduce(fn, a, axis, keepdims) ==
    IF axis = None
    THEN RetArray(Arr(IF keepdims THEN [j \in 1..Rank(a) |-> 1] ELSE <<>>,
                      <<Reduce(fn, a.data)>>))
    ELSE IF ~PyValid(Rank(a), axis[1])
    THEN Raise("AxisError", "axis is out of bounds for array of dimension",
               <<axis[1], Rank(a)>>)
    ELSE LET ax == PyPos(Rank(a), axis[1]) + 1
             small == [j \in 1..(Rank(a) - 1) |->
                          IF j < ax THEN a.shape[j] ELSE a.shape[j + 1]]
             shape == IF keepdims THEN [a.shape EXCEPT ![ax] = 1] ELSE small
         IN  RetArray(Arr(shape,
                 [k \in 1..Prod(small) |->
                     LET g == Group(a, ax, Unravel(k - 1, small))
                     IN  Reduce(fn, [v \in 1..Len(g) |-> At(a, g[v])])]))

\* Tensor.sum
TensorSum(t, axis, keepdims) == Wrap(np_reduce("sum", t, axis, keepdims))

\* Tensor.mean
TensorMean(t, axis, keepdims) == Wrap(np_reduce("mean", t, axis, keepdims))

\* Tensor.max
TensorMax(t, axis, keepdims) == Wrap(np_reduce("max", t, axis, keepdims))

\* ------------------------------------------------------------------- calls
NoOperand == [kind |-> "none", val |-> EmptyArr]

NoArgs ==
    [other |-> NoOperand, key |-> 0, shape |-> <<>>, packed |-> FALSE,
     dim0 |-> None, dim1 |-> None, axis |-> None, keepdims |-> FALSE]

\* The record of a call: the receiver (object and value at the call), the
\* arguments, the object of a Tensor argument (arg), the object returned
\* (ref), and the outcome.
NoCall ==
    [op |-> "", self |-> 0, selfv |-> EmptyArr, args |-> NoArgs, arg |-> 0,
     ref |-> 0, res |-> Raise("", "", <<>>)]

\* The receiver of the next call: the constructed Tensor, or the Tensor the
\* last call returned (t.f(...).g(...)); at most two calls are made.
Receiver(i) ==
    /\ prev = NoCall
    /\ i \in 1..Len(heap)
    /\ \/ last = NoCall
       \/ last.res.kind = "Tensor" /\ i = last.ref

\* A method that stores its result into its receiver and returns it.
CallInPlace(op, i, args, res) ==
    LET inplace == res.kind = "Tensor" /\ res.fresh
    IN  /\ heap' = IF inplace THEN [heap EXCEPT ![i] = res.val] ELSE heap
        /\ prev' = last
        /\ last' = [op |-> op, self |-> i, selfv |-> heap[i], args |-> args,
                    arg |-> 0, ref |-> IF res.kind = "Tensor" THEN i ELSE 0,
                    res |-> res]

\* The call self.op(args) with outcome res.  A Tensor argument is an object
\* the client constructed for the call; a Tensor the method constructs is a
\* new object; no method assigns to the data, shape or size of an object.
Call(op, i, args, res) ==
    LET hasArg == args.other.kind = "Tensor"
        heap1 == IF hasArg THEN Append(heap, args.other.val) ELSE heap
        new == res.kind = "Tensor" /\ res.fresh
        ref == IF res.kind # "Tensor" THEN 0
               ELSE IF res.fresh THEN Len(heap1) + 1 ELSE i
    IN  /\ heap' = IF new THEN Append(heap1, res.val) ELSE heap1
        /\ prev' = last
        /\ last' = [op |-> op, self |-> i, selfv |-> heap[i], args |-> args,
                    arg |-> IF hasArg THEN Len(heap) + 1 ELSE 0, ref |-> ref,
                    res |-> res]

Init ==
    /\ heap \in {<<Arange(s, 1)>> : s \in InputShapes}
    /\ prev = NoCall
    /\ last = NoCall

\* ------------------------------------------------------- the client's inputs
TensorArg(arr) == [kind |-> "Tensor", val |-> arr]

\* A raw Python scalar, as the backend sees it: a 0-d array.
RawArg(v) == [kind |-> "raw", val |-> Arr(<<>>, <<Num(v)>>)]

\* The operands of an element-wise call on t: a Tensor of t's shape, the
\* Tensors of at most one axis, and a raw scalar.
ElementwiseArgs(t) ==
    {TensorArg(Arange(s, 0)) : s \in {t.shape} \cup SeqsUpTo(1..MaxDim, 1)}
        \cup {RawArg(2)}

\* The operands of matmul: the Tensors of at most two axes, and a raw scalar.
MatmulArgs ==
    {TensorArg(Arange(s, 0)) : s \in SeqsUpTo(1..MaxDim, 2)} \cup {RawArg(2)}

Keys == (-1)..(MaxDim - 1)

\* The reshape targets: -1 may stand anywhere, any number of times.
ReshapeTargets ==
    {s \in SeqsUpTo({-1} \cup (1..MaxDim), MaxRank) :
        Prod([j \in 1..Len(s) |-> Abs(s[j])]) <= MaxSize}

\* The axis arguments a client passes to transpose and to the reductions.
AxisArgs == {None} \cup {Some(d) : d \in (-MaxRank)..(MaxRank - 1)}

\* The value a client writes into a buffer: no element of the model equals it.
Poke == Num(-1)

\* ----------------------------------------------------------------- actions
Add(i, other) ==
    /\ Receiver(i)
    /\ Call("add", i, [NoArgs EXCEPT !.other = other], TensorAdd(heap[i], other))

Sub(i, other) ==
    /\ Receiver(i)
    /\ Call("sub", i, [NoArgs EXCEPT !.other = other], TensorSub(heap[i], other))

Mul(i, other) ==
    /\ Receiver(i)
    /\ Call("mul", i, [NoArgs EXCEPT !.other = other], TensorMul(heap[i], other))

Div(i, other) ==
    /\ Receiver(i)
    /\ Call("div", i, [NoArgs EXCEPT !.other = other], TensorDiv(heap[i], other))

Matmul(i, other) ==
    /\ Receiver(i)
    /\ \E exc \in CoercionErrors :
           Call("matmul", i, [NoArgs EXCEPT !.other = other],
                TensorMatmul(heap[i], other, exc))

MemoryFootprint(i) ==
    /\ Receiver(i)
    /\ Call("memory_footprint", i, NoArgs, TensorMemoryFootprint(heap[i]))

GetItem(i, key) ==
    /\ Receiver(i)
    /\ Call("getitem", i, [NoArgs EXCEPT !.key = key], TensorGetItem(heap[i], key))

Reshape(i, shape, packed) ==
    /\ Receiver(i)
    /\ Call("reshape", i, [NoArgs EXCEPT !.shape = shape, !.packed = packed],
            TensorReshape(heap[i], shape, packed))

Transpose(i, dim0, dim1) ==
    /\ Receiver(i)
    /\ Call("transpose", i, [NoArgs EXCEPT !.dim0 = dim0, !.dim1 = dim1],
            TensorTranspose(heap[i], dim0, dim1))

SumOp(i, axis, keepdims) ==
    /\ Receiver(i)
    /\ Call("sum", i, [NoArgs EXCEPT !.axis = axis, !.keepdims = keepdims],
            TensorSum(heap[i], axis, keepdims))

MeanOp(i, axis, keepdims) ==
    /\ Receiver(i)
    /\ Call("mean", i, [NoArgs EXCEPT !.axis = axis, !.keepdims = keepdims],
            TensorMean(heap[i], axis, keepdims))

MaxOp(i, axis, keepdims) ==
    /\ Receiver(i)
    /\ Call("max", i, [NoArgs EXCEPT !.axis = axis, !.keepdims = keepdims],
            TensorMax(heap[i], axis, keepdims))

\* The client writes Poke at flat offset k - 1 of the buffer of the Tensor
\* the last call returned (r.numpy() hands out r.data itself).
SetItem(k) ==
    /\ prev = NoCall
    /\ last.res.kind = "Tensor"
    /\ k \in 1..Size(heap[last.ref])
    /\ heap' = [heap EXCEPT ![last.ref].data[k] = Poke]
    /\ prev' = last
    /\ last' = [NoCall EXCEPT !.op = "setitem", !.self = last.ref,
                              !.selfv = heap[last.ref],
                              !.args = [NoArgs EXCEPT !.key = k - 1]]

\* One call on the constructed Tensor.
FirstCall ==
    \/ \E o \in ElementwiseArgs(heap[1]) : Add(1, o)
    \/ \E o \in ElementwiseArgs(heap[1]) : Sub(1, o)
    \/ \E o \in ElementwiseArgs(heap[1]) : Mul(1, o)
    \/ \E o \in ElementwiseArgs(heap[1]) : Div(1, o)
    \/ \E o \in MatmulArgs : Matmul(1, o)
    \/ \E key \in Keys : GetItem(1, key)
    \/ \E s \in ReshapeTargets, packed \in BOOLEAN : Reshape(1, s, packed)
    \/ \E d0, d1 \in AxisArgs : Transpose(1, d0, d1)
    \/ \E axis \in AxisArgs, keepdims \in BOOLEAN : SumOp(1, axis, keepdims)
    \/ \E axis \in AxisArgs, keepdims \in BOOLEAN : MeanOp(1, axis, keepdims)
    \/ \E axis \in AxisArgs, keepdims \in BOOLEAN : MaxOp(1, axis, keepdims)
    \/ MemoryFootprint(1)

\* One call on the constructed Tensor, then a write into what it returned.
Next ==
    \/ last = NoCall /\ FirstCall
    \/ \E k \in 1..MaxSize : SetItem(k)

Spec == Init /\ [][Next]_vars

\* t.reshape(...).reshape(...)
NextReshape ==
    \E i \in 1..Len(heap), s \in ReshapeTargets, packed \in BOOLEAN : Reshape(i, s, packed)

SpecReshape == Init /\ [][NextReshape]_vars

\* t.transpose(...).transpose(...)
NextTranspose == \E i \in 1..Len(heap), d0, d1 \in AxisArgs : Transpose(i, d0, d1)

SpecTranspose == Init /\ [][NextTranspose]_vars

\* A.matmul(B) for every pair of 2x2 matrices over 0..MaxVal.
Matrices2x2 == {Arr(<<2, 2>>, d) : d \in [1..4 -> {Num(v) : v \in 0..MaxVal}]}

InitMatmul ==
    /\ heap \in {<<a>> : a \in Matrices2x2}
    /\ prev = NoCall
    /\ last = NoCall

NextMatmul == \E b \in Matrices2x2 : Matmul(1, TensorArg(b))

SpecMatmul == InitMatmul /\ [][NextMatmul]_vars

\* ------------------------------------------------------------------ claims
IsTensorCall(c, op) == c.op = op /\ c.args.other.kind = "Tensor"

\* sum over p of a[i, p] * b[p, j], for matrices a and b.
Cell(a, b, i, j) ==
    SumSeq([p \in 1..a.shape[2] |-> RMul(At(a, <<i, p - 1>>), At(b, <<p - 1, j>>))])

\* C1: for self of shape (m, k) and other of shape (k, n), matmul returns a
\* Tensor of shape (m, n) whose entry (i, j) is the sum over p of
\* self[i, p] * other[p, j].
C1_MatmulIsMatrixProduct ==
    LET a == last.selfv
        b == last.args.other.val
    IN  (/\ IsTensorCall(last, "matmul")
         /\ Rank(a) = 2 /\ Rank(b) = 2
         /\ a.shape[2] = b.shape[1])
        => /\ last.res.kind = "Tensor"
           /\ last.res.val.shape = <<a.shape[1], b.shape[2]>>
           /\ \A i \in 0..(a.shape[1] - 1), j \in 0..(b.shape[2] - 1) :
                  At(last.res.val, <<i, j>>) = Cell(a, b, i, j)

\* The target s with its single -1 replaced by d.
Fill(s, d) == [j \in 1..Len(s) |-> IF s[j] = -1 THEN d ELSE s[j]]

\* C2: a reshape target with exactly one -1, at any position, resolves the -1
\* to size / product(other dimensions) and returns a Tensor of that full
\* shape; when the division is not exact the call fails with a ValueError.
C2_ReshapeWildcard ==
    LET s == last.args.shape
        n == Size(last.selfv)
        known == Prod(Fill(s, 1))
    IN  (last.op = "reshape" /\ CountNeg(s) = 1)
        => IF n % known = 0
           THEN /\ last.res.kind = "Tensor"
                /\ last.res.val.shape = Fill(s, n \div known)
           ELSE last.res.kind = "raise" /\ last.res.exc = "ValueError"

\* C3: for a Tensor t of any rank and a shape s of non-negative dimensions
\* with product(s) = t.size, t.reshape(s) succeeds and
\* t.reshape(s).reshape(t.shape) has the shape and the elements of t.
C3_ReshapeRoundTrip ==
    /\ (/\ last.op = "reshape"
        /\ CountNeg(last.args.shape) = 0
        /\ Prod(last.args.shape) = Size(last.selfv))
       => /\ last.res.kind = "Tensor"
          /\ last.res.val.shape = last.args.shape
    /\ (/\ prev.op = "reshape" /\ last.op = "reshape"
        /\ CountNeg(prev.args.shape) = 0
        /\ prev.res.kind = "Tensor"
        /\ last.self = prev.ref
        /\ last.args.packed /\ last.args.shape = prev.selfv.shape)
       => /\ last.res.kind = "Tensor"
          /\ last.res.val = prev.selfv

\* The axis of other that matmul contracts.
Contracted(b) == IF Rank(b) = 1 THEN b.shape[1] ELSE b.shape[Rank(b) - 1]

\* C4: when the contracted dimension of other (rank >= 1) differs from
\* self.shape[-1], matmul fails with a ValueError whose message cites the two
\* dimensions as "self.shape[-1] != contracted", and returns no Tensor.
C4_MatmulMismatchCited ==
    LET a == last.selfv
        b == last.args.other.val
    IN  (/\ IsTensorCall(last, "matmul")
         /\ Rank(a) >= 1 /\ Rank(b) >= 1
         /\ Contracted(b) # a.shape[Rank(a)])
        => /\ last.res.kind = "raise"
           /\ last.res.exc = "ValueError"
           /\ last.res.msg = [text |-> InnerDimsText,
                              dims |-> <<a.shape[Rank(a)], Contracted(b)>>]

\* C5: add, sub, mul and div each return a new Tensor of the broadcast shape,
\* whether other is a Tensor or a raw scalar.
C5_ElementwiseReturnsTensor ==
    (/\ last.op \in {"add", "sub", "mul", "div"}
     /\ Broadcastable(last.selfv.shape, last.args.other.val.shape))
    => /\ last.res.kind = "Tensor"
       /\ last.ref # last.self
       /\ last.res.val.shape =
              BroadcastShape(last.selfv.shape, last.args.other.val.shape)

\* C6: a Tensor returned by an operation is a new instance with its own
\* buffer: after a write into the buffer of the result, the Tensor the
\* result was derived from still holds the data it held at the call.
C6_NoAliasing ==
    (last.op = "setitem" /\ prev.res.kind = "Tensor")
    => /\ prev.ref # prev.self
       /\ heap[prev.self] = prev.selfv

\* C9: for other a Tensor of rank 0, matmul does not raise and returns a
\* Tensor of self's shape whose elements are self's, each times the scalar.
C9_MatmulByScalar ==
    LET a == last.selfv
        b == last.args.other.val
    IN  (IsTensorCall(last, "matmul") /\ Rank(b) = 0)
        => /\ last.res.kind = "Tensor"
           /\ last.res.val.shape = a.shape
           /\ last.res.val.data = [k \in 1..Size(a) |-> RMul(a.data[k], b.data[1])]

\* C10: a call of a Tensor method, whether it returns or raises, leaves the
\* data and shape (and so the size) of every Tensor that existed before it,
\* the receiver included, and of its Tensor argument as they were.
C10_Immutability ==
    [][(last'.op # "setitem")
       => /\ \A j \in 1..Len(heap) : heap'[j] = heap[j]
          /\ heap'[last'.self] = last'.selfv
          /\ last'.arg # 0 => heap'[last'.arg] = last'.args.other.val]_vars

\* C10 witness: [[1,2,3],[4,5,6]] / Tensor([0,1,2]) has returned a new Tensor
\* (object 3, whose first element is 1/0 = inf); the receiver (object 1) and
\* the argument (object 2) are there to compare.
C10_Witness ==
    /\ last.op = "div"
    /\ last.selfv.shape = <<2, 3>>
    /\ last.args.other.val.shape = <<3>>
    /\ last.arg = 2 /\ last.ref = 3
    /\ heap[1] = last.selfv
    /\ heap[3].data[1] = <<1, 0>>

\* The axis arguments of call c are both absent, or both valid for rank n.
ValidAxes(c, n) ==
    \/ c.args.dim0 = None /\ c.args.dim1 = None
    \/ /\ c.args.dim0 # None /\ c.args.dim1 # None
       /\ PyValid(n, c.args.dim0[1]) /\ PyValid(n, c.args.dim1[1])

\* The two axes (1-based) call c exchanges in a Tensor of rank n.
AxisPair(c, n) ==
    IF c.args.dim0 = None THEN <<n - 1, n>>
    ELSE <<PyPos(n, c.args.dim0[1]) + 1, PyPos(n, c.args.dim1[1]) + 1>>

\* C7: for rank >= 2, one transpose exchanges exactly the sizes of its two
\* axes (the last two when none is given) and leaves every other axis in
\* place, and the same transpose applied twice gives back the shape and the
\* elements of t.
C7_TransposeInvolution ==
    /\ (/\ last.op = "transpose"
        /\ Rank(last.selfv) >= 2
        /\ ValidAxes(last, Rank(last.selfv)))
       => LET s == last.selfv.shape
              ax == AxisPair(last, Len(s))
          IN  /\ last.res.kind = "Tensor"
              /\ last.res.val.shape =
                     [j \in 1..Len(s) |-> IF j = ax[1] THEN s[ax[2]]
                                          ELSE IF j = ax[2] THEN s[ax[1]] ELSE s[j]]
    /\ (/\ prev.op = "transpose" /\ last.op = "transpose"
        /\ Rank(prev.selfv) >= 2
        /\ ValidAxes(prev, Rank(prev.selfv))
        /\ last.self = prev.ref
        /\ last.args = prev.args)
       => /\ last.res.kind = "Tensor"
          /\ heap[last.ref] = prev.selfv

\* C7 witness: transpose(0, 2) applied twice to a Tensor of shape (1, 2, 3).
C7_Witness ==
    /\ prev.op = "transpose" /\ last.op = "transpose"
    /\ prev.selfv.shape = <<1, 2, 3>>
    /\ prev.args.dim0 = Some(0) /\ prev.args.dim1 = Some(2)
    /\ prev.res.val.shape = <<3, 2, 1>>
    /\ last.self = prev.ref
    /\ last.args = prev.args
    /\ last.res.kind = "Tensor"

\* C8: for A and B both of shape (2, 2), A.matmul(B) returns a Tensor of
\* shape (2, 2) whose entries, in row-major order, are those of the general
\* matrix product np.matmul(A, B).
C8_Matmul2x2Equivalence ==
    LET a == last.selfv
        b == last.args.other.val
    IN  (/\ IsTensorCall(last, "matmul")
         /\ a.shape = <<2, 2>> /\ b.shape = <<2, 2>>)
        => /\ last.res.kind = "Tensor"
           /\ last.res.val.shape = <<2, 2>>
           /\ last.res.val.data = np_matmul(a, b).val.data

\* C8 witness: [[1, 2], [0, 1]] matmul [[0, 1], [2, 0]] = [[4, 1], [2, 0]].
C8_Witness ==
    /\ IsTensorCall(last, "matmul")
    /\ last.selfv = Arr(<<2, 2>>, <<Num(1), Num(2), Num(0), Num(1)>>)
    /\ last.args.other.val = Arr(<<2, 2>>, <<Num(0), Num(1), Num(2), Num(0)>>)
    /\ last.res.val = Arr(<<2, 2>>, <<Num(4), Num(1), Num(2), Num(0)>>)

====
